---------------------------- MODULE Spec2Model ----------------------------
(* A model of dangerfile.js: the commit-message linter commitLint, the      *)
(* top-level checks of the dangerfile and its six scheduled dependency     *)
(* callbacks.                                                               *)
(*                                                                          *)
(* JavaScript values are records with a field t: undefined, null, a string  *)
(* (a sequence of one-character strings), an array, or an object (its       *)
(* property names and their values; a name it does not hold reads as        *)
(* undefined).                                                              *)
EXTENDS Integers, Sequences, FiniteSets, Bags, TLC

VARIABLES
    commit, result, called,
    commits, modified_files, pr, packageDiff,
    commitErrors, fails, warns, markdowns, messages, pc, cb

lintVars == <<commit, result, called>>
runVars == <<commits, modified_files, pr, packageDiff,
             commitErrors, fails, warns, markdowns, messages, pc, cb>>
vars == <<commit, result, called,
          commits, modified_files, pr, packageDiff,
          commitErrors, fails, warns, markdowns, messages, pc, cb>>

-----------------------------------------------------------------------------
(* JavaScript values                                                        *)

Undefined == [t |-> "undefined"]
Null == [t |-> "null"]
Str(s) == [t |-> "string", s |-> s]
Arr(items) == [t |-> "array", items |-> items]
\* An object: its property names in insertion order and their values.
Obj(keys, vals) == [t |-> "object", keys |-> keys, vals |-> vals]

\* Falsy as a test for undefined and null only: "" is let through.
FalsyNullish(v) == v.t \in {"undefined", "null"}

\* !v for the values the dangerfile negates: undefined, null and "" are falsy.
Falsy(v) == \/ v.t = "undefined"
            \/ v.t = "null"
            \/ (v.t = "string" /\ v.s = <<>>)

\* v.k on an object; undefined when the property is absent.
Get(v, k) ==
    IF \E i \in 1..Len(v.keys) : v.keys[i] = k
    THEN v.vals[CHOOSE i \in 1..Len(v.keys) : v.keys[i] = k]
    ELSE Undefined

\* Reading a property of undefined or null throws a TypeError.
CanRead(v) == v.t \notin {"undefined", "null"}

-----------------------------------------------------------------------------
(* Characters and the two regular expressions of commitLint                 *)

Lower == {"a", "b", "c", "d", "e", "f", "g", "h", "i", "j", "k", "l", "m",
          "n", "o", "p", "q", "r", "s", "t", "u", "v", "w", "x", "y", "z"}
Upper == {"A", "B", "C", "D", "E", "F", "G", "H", "I", "J", "K", "L", "M",
          "N", "O", "P", "Q", "R", "S", "T", "U", "V", "W", "X", "Y", "Z"}
Digits == {"0", "1", "2", "3", "4", "5", "6", "7", "8", "9"}

\* \w of a JavaScript regular expression without the u or i flag.
WordChar(c) == c \in Lower \cup Upper \cup Digits \cup {"_"}

\* The characters "." does not match: LF, CR, U+2028 (LS), U+2029 (PS).
LineTerminators == {"\n", "\r", "LS", "PS"}
Dot(c) == c \notin LineTerminators

Types == << <<"f", "e", "a", "t">>,
            <<"f", "i", "x">>,
            <<"d", "o", "c", "s">>,
            <<"s", "t", "y", "l", "e">>,
            <<"r", "e", "f", "a", "c", "t", "o", "r">>,
            <<"p", "e", "r", "f">>,
            <<"t", "e", "s", "t">>,
            <<"b", "u", "i", "l", "d">>,
            <<"c", "i">>,
            <<"c", "h", "o", "r", "e">>,
            <<"r", "e", "v", "e", "r", "t">> >>

\* s has the characters of lit at positions p .. p + Len(lit) - 1.
LitAt(s, p, lit) == /\ p + Len(lit) - 1 <= Len(s)
                    /\ \A i \in 1..Len(lit) : s[p + i - 1] = lit[i]

\* ": (.{1,})" matched at position p: a colon, a space, one "." character.
SubjectAt(s, p) == /\ LitAt(s, p, <<":", " ">>)
                   /\ p + 2 <= Len(s)
                   /\ Dot(s[p + 2])

\* ScopeThenSubjectAt with the scope written "(\(.*\))?": "()" is a scope.
ScopeStarThenSubjectAt(s, p) ==
    \/ SubjectAt(s, p)
    \/ /\ p <= Len(s)
       /\ s[p] = "("
       /\ \E q \in (p + 1)..Len(s) :
              /\ s[q] = ")"
              /\ \A i \in (p + 1)..(q - 1) : Dot(s[i])
              /\ SubjectAt(s, q + 1)

\* "(\(.{1,}\))?" then the rest, matched at position p: either the group is
\* skipped, or it matches "(" at p, one or more "." characters and ")" at q.
ScopeThenSubjectAt(s, p) ==
    \/ SubjectAt(s, p)
    \/ /\ p <= Len(s)
       /\ s[p] = "("
       /\ \E q \in (p + 2)..Len(s) :
              /\ s[q] = ")"
              /\ \A i \in (p + 1)..(q - 1) : Dot(s[i])
              /\ SubjectAt(s, q + 1)

\* headerRegex.test(s): anchored at the start, not at the end, no flags.
headerRegex(s) ==
    \E n \in 1..Len(Types) :
        /\ LitAt(s, 1, Types[n])
        /\ ScopeThenSubjectAt(s, Len(Types[n]) + 1)

\* hasTextRegex written /\w{1,}/: the underscore counts as text.
hasTextRegexWord(s) == \E i \in 1..Len(s) : WordChar(s[i])

\* hasTextRegex.test(s), /([^\W\_]){1,}/: some character that is a word
\* character and not the underscore.
hasTextRegex(s) == \E i \in 1..Len(s) : WordChar(s[i]) /\ s[i] # "_"

\* split followed by .filter(Boolean): the empty lines are dropped.
RECURSIVE splitNonEmpty(_)
splitNonEmpty(s) ==
    IF \A i \in 1..Len(s) : s[i] # "\n"
    THEN IF s = <<>> THEN <<>> ELSE <<s>>
    ELSE LET i == CHOOSE j \in 1..Len(s) :
                      s[j] = "\n" /\ \A k \in 1..(j - 1) : s[k] # "\n"
         IN  (IF i = 1 THEN <<>> ELSE <<SubSeq(s, 1, i - 1)>>)
             \o splitNonEmpty(SubSeq(s, i + 1, Len(s)))

\* s.split('\n')
RECURSIVE split(_)
split(s) ==
    IF \A i \in 1..Len(s) : s[i] # "\n"
    THEN <<s>>
    ELSE LET i == CHOOSE j \in 1..Len(s) :
                      s[j] = "\n" /\ \A k \in 1..(j - 1) : s[k] # "\n"
         IN  <<SubSeq(s, 1, i - 1)>> \o split(SubSeq(s, i + 1, Len(s)))

-----------------------------------------------------------------------------
(* commitLint                                                               *)

\* The template string Commit ${sha}
commitIdentificator(sha) == <<"Commit ", sha>>

\* ${commitIdentificator} message does not comply with the
\* conventional-changelog-standard conventions.
errorMessage(sha) ==
    commitIdentificator(sha) \o
    <<" message does not comply with the conventional-changelog-standard conventions.">>

\* commitLint with one more check: a sixth line has to be blank.
commitLintSixth(c) ==
    LET msg == c.msg
        sha == c.sha
    IN
    IF Falsy(msg)
    THEN Str(commitIdentificator(sha) \o <<" has no commit message">>)
    ELSE IF ~headerRegex(msg.s)
    THEN Str(errorMessage(sha) \o
             <<" Line #1 should be '<type>(<scope>): <subject>' or '<type>: <subject>'.">>)
    ELSE LET msgLines == split(msg.s) IN
    IF Len(msgLines) > 1 /\ msgLines[2] # <<>>
    THEN Str(errorMessage(sha) \o <<" Line #2 should be '<blank line>'.">>)
    ELSE IF Len(msgLines) > 2 /\ ~hasTextRegex(msgLines[3])
    THEN Str(errorMessage(sha) \o <<" Line #3 should be '<body>' (with text).">>)
    ELSE IF Len(msgLines) > 3 /\ msgLines[4] # <<>>
    THEN Str(errorMessage(sha) \o <<" Line #4 should be '<blank line>'.">>)
    ELSE IF Len(msgLines) > 4 /\ ~hasTextRegex(msgLines[5])
    THEN Str(errorMessage(sha) \o <<" Line #3 should be '<footer>' with text.">>)
    ELSE IF Len(msgLines) > 5 /\ msgLines[6] # <<>>
    THEN Str(errorMessage(sha) \o <<" Line #6 should be '<blank line>'.">>)
    ELSE Undefined

\* A string is kept as the sequence of its parts; the backquotes of the
\* messages are written as single quotes.
commitLint(c) ==
    LET msg == c.msg
        sha == c.sha
    IN
    IF Falsy(msg)
    THEN Str(commitIdentificator(sha) \o <<" has no commit message">>)
    ELSE IF ~headerRegex(msg.s)
    THEN Str(errorMessage(sha) \o
             <<" Line #1 should be '<type>(<scope>): <subject>' or '<type>: <subject>'.">>)
    ELSE LET msgLines == split(msg.s) IN
    IF Len(msgLines) > 1 /\ msgLines[2] # <<>>
    THEN Str(errorMessage(sha) \o <<" Line #2 should be '<blank line>'.">>)
    ELSE IF Len(msgLines) > 2 /\ ~hasTextRegex(msgLines[3])
    THEN Str(errorMessage(sha) \o <<" Line #3 should be '<body>' (with text).">>)
    ELSE IF Len(msgLines) > 3 /\ msgLines[4] # <<>>
    THEN Str(errorMessage(sha) \o <<" Line #4 should be '<blank line>'.">>)
    ELSE IF Len(msgLines) > 4 /\ ~hasTextRegex(msgLines[5])
    THEN Str(errorMessage(sha) \o <<" Line #3 should be '<footer>' with text.">>)
    ELSE Undefined

-----------------------------------------------------------------------------
(* The inputs of a single commitLint call                                   *)

MaxLines == 6

Shas == {"a1", "b2"}

\* A first line is a prefix, a scope, a separator and a subject, each drawn
\* from the pieces below.
HeaderPrefixes ==
    {Types[n] : n \in 1..Len(Types)} \cup
    { <<>>,
      <<"f", "e", "a">>,
      <<"f", "e", "a", "t", "u", "r", "e">>,
      <<"F", "e", "a", "t">>,
      <<"u", "n", "k", "n", "o", "w", "n">>,
      <<" ", "f", "i", "x">> }
HeaderScopes ==
    { <<>>, <<"(", ")">>, <<"(", "a", ")">>, <<"(", "a", ")", "(", "b", ")">>,
      <<"(", "\r", ")">>, <<"(", "a">> }
HeaderSeparators == { <<":", " ">>, <<":">>, <<>> }
HeaderSubjects == { <<>>, <<"x">>, <<"\r">>, <<"x", "\r">>, <<"LS">> }

OneLineMessages ==
    {p \o sc \o sep \o su : p \in HeaderPrefixes, sc \in HeaderScopes,
                            sep \in HeaderSeparators, su \in HeaderSubjects}

\* The first lines of the messages of several lines, and the lines after it.
MultiLineHeaders ==
    { <<"c", "i", "(", "a", ")", ":", " ", "b">>,
      <<"f", "i", "x", ":", " ">> }
LineSamples ==
    { <<>>, <<"_">>, <<" ", ".">>, <<"b", "9">>, <<"_", "-">> }

\* Every continuation of at most n lines, each led by its line feed.
RECURSIVE Tails(_)
Tails(n) ==
    IF n = 0 THEN {<<>>}
    ELSE {<<>>} \cup {<<"\n">> \o l \o tl : l \in LineSamples, tl \in Tails(n - 1)}

MultiLineMessages ==
    {h \o tl : h \in MultiLineHeaders, tl \in Tails(MaxLines - 1) \ {<<>>}}

LintInputs ==
    {[sha |-> sha, msg |-> m] :
        sha \in Shas,
        m \in {Undefined, Null} \cup {Str(s) : s \in {<<>>} \cup OneLineMessages}}
    \cup {[sha |-> "a1", msg |-> Str(s)] : s \in MultiLineMessages}

-----------------------------------------------------------------------------
(* One call of commitLint                                                   *)

RunIdle ==
    /\ commits = <<>>
    /\ modified_files = {}
    /\ pr = [additions |-> 0, deletions |-> 0, assignee |-> Null]
    /\ packageDiff = Undefined
    /\ commitErrors = <<>>
    /\ fails = <<>>
    /\ warns = <<>>
    /\ markdowns = <<>>
    /\ messages = EmptyBag
    /\ pc = "off"
    /\ cb = [k \in 1..6 |-> "off"]

LintInit ==
    /\ commit \in LintInputs
    /\ result = Undefined
    /\ called = FALSE
    /\ RunIdle

Lint ==
    /\ ~called
    /\ result' = commitLint(commit)
    /\ called' = TRUE
    /\ UNCHANGED commit
    /\ UNCHANGED runVars

LintNext == Lint

LintSpec == LintInit /\ [][LintNext]_vars

-----------------------------------------------------------------------------
(* The dangerfile: its top-level checks                                     *)

bigPRThreshold == 600

\* danger.github.commits.map(obj => ({sha: obj.sha, msg: obj.commit.message}))
commitsOf(githubCommits) ==
    [i \in 1..Len(githubCommits) |->
        [sha |-> githubCommits[i].sha, msg |-> githubCommits[i].commit.message]]

\* commits.map(commitLint) with headerRegex hoisted out of commitLint and
\* given the g flag: a successful test leaves lastIndex after the match, and
\* the next test, started there, fails on the ^ and resets lastIndex.
RECURSIVE lintSharedFrom(_, _, _, _)
lintSharedFrom(cs, i, lastIndex, acc) ==
    IF i > Len(cs) THEN acc
    ELSE IF Falsy(cs[i].msg)
    THEN lintSharedFrom(cs, i + 1, lastIndex, Append(acc, commitLint(cs[i])))
    ELSE IF lastIndex > 0
    THEN lintSharedFrom(cs, i + 1, 0,
             Append(acc, Str(errorMessage(cs[i].sha) \o
                 <<" Line #1 should be '<type>(<scope>): <subject>' or '<type>: <subject>'.">>)))
    ELSE lintSharedFrom(cs, i + 1, IF headerRegex(cs[i].msg.s) THEN 1 ELSE 0,
                        Append(acc, commitLint(cs[i])))
lintAllSharedRegex(cs) == lintSharedFrom(cs, 1, 0, <<>>)

\* commits.map(commitLint)
lintAll(cs) == [i \in 1..Len(cs) |-> commitLint(cs[i])]

IsError(e) == e # Undefined

\* The fail calls of the dangerfile reduced to commitErrors.find: only the
\* first error is reported.
failCallsFirstOnly(errors) ==
    IF \E i \in 1..Len(errors) : IsError(errors[i])
    THEN <<errors[CHOOSE i \in 1..Len(errors) :
                     IsError(errors[i]) /\ \A j \in 1..(i - 1) : ~IsError(errors[j])]>>
    ELSE <<>>

\* The texts given to fail, in call order: if some error is defined, each
\* defined error in turn.
failCalls(errors) ==
    IF \E i \in 1..Len(errors) : IsError(errors[i])
    THEN SelectSeq(errors, IsError)
    ELSE <<>>

packageChanged == "package.json" \in modified_files
lockfileChanged == "yarn.lock" \in modified_files

LockfileWarning ==
    <<"Changes were made to package.json, but not to yarn.lock",
      " - <i>", "Perhaps you need to run 'yarn install'?", "</i>">>
BigPRWarning == <<":exclamation: Big PR">>
BigPRMarkdown ==
    <<"> Pull Request size seems relatively large. If Pull Request contains multiple changes, split each into separate PR will helps faster, easier review.">>
AssigneeWarning ==
    <<"Please assign someone to merge this PR, and optionally include people who should review.">>

\* The warn calls of lines 79-99, in call order.
warnCalls ==
    (IF packageChanged /\ ~lockfileChanged THEN <<LockfileWarning>> ELSE <<>>)
    \o (IF pr.additions + pr.deletions > bigPRThreshold
        THEN <<BigPRWarning>> ELSE <<>>)
    \o (IF pr.assignee = Null THEN <<AssigneeWarning>> ELSE <<>>)

markdownCalls ==
    IF pr.additions + pr.deletions > bigPRThreshold
    THEN <<BigPRMarkdown>> ELSE <<>>

-----------------------------------------------------------------------------
(* The dangerfile: its six scheduled callbacks                              *)

DigitSeq == <<"0", "1", "2", "3", "4", "5", "6", "7", "8", "9">>

\* ${n} for a natural number n.
RECURSIVE Numeral(_)
Numeral(n) ==
    IF n < 10 THEN <<DigitSeq[n + 1]>>
    ELSE Numeral(n \div 10) \o <<DigitSeq[(n % 10) + 1]>>

NotAt(c) == c # "@"
\* string.replace(/@/g, '')
removeAtSymbols(string) == SelectSeq(string, NotAt)

\* The forEach loops that build a list: the first item while the string is
\* still falsy, then the string, a comma, a space and the item. items holds strings.
RECURSIVE joinFrom(_, _, _)
joinFrom(items, i, acc) ==
    IF i > Len(items) THEN acc
    ELSE joinFrom(items, i + 1,
                  IF Falsy(acc) THEN items[i]
                  ELSE Str(acc.s \o <<",", " ">> \o items[i].s))

\* What a callback does after its await: it throws, ends silently, or calls
\* message with a text.
Throws == [kind |-> "throw"]
Silent == [kind |-> "none"]
Says(text) == [kind |-> "message", text |-> text]

\* The loop over Object.keys(section.after) of the two update checks:
\* the updatedDependencies array after the keys from i on.
RECURSIVE updatedFrom(_, _, _)
updatedFrom(section, i, acc) ==
    LET after == Get(section, "after")
        before == Get(section, "before")
    IN
    IF i > Len(after.keys) THEN acc
    ELSE LET dependency == after.keys[i]
             versionBefore == Get(before, dependency)
             versionAfter == Get(after, dependency)
         IN  updatedFrom(section, i + 1,
                 IF ~Falsy(versionBefore) /\ versionAfter # versionBefore
                 THEN Append(acc, Str(dependency \o <<" (from <b>">> \o versionBefore.s
                                      \o <<"</b> to <b>">> \o versionAfter.s
                                      \o <<"</b>)">>))
                 ELSE acc)

\* Object.keys(section.after) throws when after is undefined or null, and
\* section.before[dependency] when before is and there is a key to look up.
updatedThrows(section) ==
    \/ ~CanRead(Get(section, "after"))
    \/ /\ Len(Get(section, "after").keys) > 0
       /\ ~CanRead(Get(section, "before"))

\* Checks for new dependencies
newDependenciesCheck(diff) ==
    IF ~Falsy(diff) /\ ~Falsy(Get(diff, "dependencies"))
    THEN LET newDependencies == Get(Get(diff, "dependencies"), "added") IN
         IF ~CanRead(newDependencies) THEN Throws
         ELSE LET newCount == Len(newDependencies.items) IN
              IF newCount > 0
              THEN Says(<<"There ", IF newCount = 1 THEN "is" ELSE "are", " ">>
                        \o Numeral(newCount)
                        \o <<" new ",
                             IF newCount = 1 THEN "dependency" ELSE "dependencies",
                             " added in this PR: ">>
                        \o removeAtSymbols(joinFrom(newDependencies.items, 1, Undefined).s)
                        \o <<".">>)
              ELSE Silent
    ELSE Silent

\* Checks for removed dependencies
removedDependenciesCheck(diff) ==
    IF ~Falsy(diff) /\ ~Falsy(Get(diff, "dependencies"))
    THEN LET removedDependencies == Get(Get(diff, "dependencies"), "removed") IN
         IF ~CanRead(removedDependencies) THEN Throws
         ELSE IF Len(removedDependencies.items) > 0
              THEN Says(<<"There is ">>
                        \o Numeral(Len(removedDependencies.items))
                        \o <<" removed ",
                             IF Len(removedDependencies.items) = 1
                             THEN "dependency" ELSE "dependencies",
                             " in this PR: ">>
                        \o removeAtSymbols(joinFrom(removedDependencies.items, 1, Undefined).s)
                        \o <<".">>)
              ELSE Silent
    ELSE Silent

\* Checks for updated dependencies
updatedDependenciesCheck(diff) ==
    IF ~Falsy(diff) /\ ~Falsy(Get(diff, "dependencies"))
    THEN LET dependencies == Get(diff, "dependencies") IN
         IF updatedThrows(dependencies) THEN Throws
         ELSE LET updatedDependencies == updatedFrom(dependencies, 1, <<>>) IN
              IF Len(updatedDependencies) > 0
              THEN Says(<<"The version of ">>
                        \o Numeral(Len(updatedDependencies))
                        \o <<" ",
                             IF Len(updatedDependencies) = 1
                             THEN "dependency" ELSE "dependencies",
                             " have been updated in this PR: ">>
                        \o removeAtSymbols(joinFrom(updatedDependencies, 1, Undefined).s)
                        \o <<".">>)
              ELSE Silent
    ELSE Silent

\* Checks for new devDependencies
newDevDependenciesCheck(diff) ==
    IF ~Falsy(diff) /\ ~Falsy(Get(diff, "devDependencies"))
    THEN LET newDevDependencies == Get(Get(diff, "devDependencies"), "added") IN
         IF ~CanRead(newDevDependencies) THEN Throws
         ELSE LET newCount == Len(newDevDependencies.items) IN
              IF newCount > 0
              THEN Says(<<"There ", IF newCount = 1 THEN "is" ELSE "are", " ">>
                        \o Numeral(newCount)
                        \o <<" new dev",
                             IF newCount = 1 THEN "Dependency" ELSE "Dependencies",
                             " added in this PR: ">>
                        \o removeAtSymbols(joinFrom(newDevDependencies.items, 1, Undefined).s)
                        \o <<".">>)
              ELSE Silent
    ELSE Silent

\* Checks for removed devDependencies
removedDevDependenciesCheck(diff) ==
    IF ~Falsy(diff) /\ ~Falsy(Get(diff, "devDependencies"))
    THEN LET removedDevDependencies == Get(Get(diff, "devDependencies"), "removed") IN
         IF ~CanRead(removedDevDependencies) THEN Throws
         ELSE LET removedCount == Len(removedDevDependencies.items) IN
              IF removedCount > 0
              THEN Says(<<"There ", IF removedCount = 1 THEN "is" ELSE "are", " ">>
                        \o Numeral(removedCount)
                        \o <<" removed dev",
                             IF removedCount = 1 THEN "Dependency" ELSE "Dependencies",
                             " in this PR: ">>
                        \o removeAtSymbols(joinFrom(removedDevDependencies.items, 1, Undefined).s)
                        \o <<".">>)
              ELSE Silent
    ELSE Silent

\* Checks for updated devDependencies
updatedDevDependenciesCheck(diff) ==
    IF ~Falsy(diff) /\ ~Falsy(Get(diff, "devDependencies"))
    THEN LET devDependencies == Get(diff, "devDependencies") IN
         IF updatedThrows(devDependencies) THEN Throws
         ELSE LET updatedDependencies == updatedFrom(devDependencies, 1, <<>>) IN
              IF Len(updatedDependencies) > 0
              THEN Says(<<"The version of ">>
                        \o Numeral(Len(updatedDependencies))
                        \o <<" dev",
                             IF Len(updatedDependencies) = 1
                             THEN "Dependency" ELSE "Dependencies",
                             " have been updated in this PR: ">>
                        \o removeAtSymbols(joinFrom(updatedDependencies, 1, Undefined).s)
                        \o <<".">>)
              ELSE Silent
    ELSE Silent

\* The callbacks in the order they are scheduled, and the source line of
\* the message call of each.
scheduled(k, diff) ==
    CASE k = 1 -> newDependenciesCheck(diff)
      [] k = 2 -> removedDependenciesCheck(diff)
      [] k = 3 -> updatedDependenciesCheck(diff)
      [] k = 4 -> newDevDependenciesCheck(diff)
      [] k = 5 -> removedDevDependenciesCheck(diff)
      [] k = 6 -> updatedDevDependenciesCheck(diff)
MessageLine == <<117, 141, 178, 203, 228, 267>>

-----------------------------------------------------------------------------
(* A run of the dangerfile                                                  *)

MaxCommits == 2

\* The lint harness at rest.
LintIdle ==
    /\ commit = [sha |-> "a1", msg |-> Undefined]
    /\ result = Undefined
    /\ called = TRUE

GithubCommit(sha, message) == [sha |-> sha, commit |-> [message |-> message]]

\* A valid commit, one whose second line is not blank, one without message.
GithubCommitSamples ==
    { GithubCommit("a1", Str(<<"c", "i", ":", " ", "b">>)),
      GithubCommit("b2", Str(<<"f", "i", "x", ":", " ", "x", "\n", "y">>)),
      GithubCommit("c3", Undefined) }

RECURSIVE ListsUpTo(_, _)
ListsUpTo(S, n) ==
    IF n = 0 THEN {<<>>}
    ELSE {<<>>} \cup {<<x>> \o l : x \in S, l \in ListsUpTo(S, n - 1)}

DepA == <<"@", "a">>
DepB == <<"b">>
V1 == Str(<<"1">>)
V2 == Str(<<"2">>)

Section(before, after, added, removed) ==
    Obj(<<"before", "after", "added", "removed">>, <<before, after, added, removed>>)

\* b was added and a went from 1 to 2.
secUpdated ==
    Section(Obj(<<DepA>>, <<V1>>), Obj(<<DepA, DepB>>, <<V2, V1>>),
            Arr(<<Str(DepB)>>), Arr(<<>>))
\* a and b were removed.
secRemoved ==
    Section(Obj(<<DepA, DepB>>, <<V1, V1>>), Obj(<<>>, <<>>),
            Arr(<<>>), Arr(<<Str(DepA), Str(DepB)>>))
\* a and b were added.
secAdded ==
    Section(Obj(<<>>, <<>>), Obj(<<DepA, DepB>>, <<V1, V1>>),
            Arr(<<Str(DepA), Str(DepB)>>), Arr(<<>>))
\* The section is new in the manifest: no before, no added, no removed.
secNoBefore == Obj(<<"before", "after">>, <<Null, Obj(<<DepA>>, <<V1>>)>>)
\* The section left the manifest: no after, no added, no removed.
secNoAfter == Obj(<<"before", "after">>, <<Obj(<<DepA>>, <<V1>>), Null>>)
\* A section without its added and removed lists.
secNoLists ==
    Obj(<<"before", "after">>, <<Obj(<<DepA>>, <<V1>>), Obj(<<DepA>>, <<V2>>)>>)
\* A section without its before and after.
secOnlyLists == Obj(<<"added", "removed">>, <<Arr(<<Str(DepB)>>), Arr(<<>>)>>)

DiffSamples ==
    { Undefined }
    \cup { Obj(<<"dependencies">>, <<s>>) :
             s \in {secUpdated, secRemoved, secNoBefore, secNoAfter,
                    secNoLists, secOnlyLists} }
    \cup { Obj(<<"devDependencies">>, <<s>>) : s \in {secUpdated} }
    \cup { Obj(<<"dependencies", "devDependencies">>, <<secUpdated, secAdded>>),
           Obj(<<"dependencies", "devDependencies">>, <<secNoAfter, secRemoved>>),
           Obj(<<"dependencies", "devDependencies">>, <<secAdded, secNoLists>>) }

PRSamples ==
    [additions : {0, 600}, deletions : {1},
     assignee : {Null, Obj(<<"login">>, <<Str(<<"u">>)>>)}]

Init ==
    /\ LintIdle
    /\ commits \in ListsUpTo(GithubCommitSamples, MaxCommits)
    /\ modified_files \in SUBSET {"package.json", "yarn.lock"}
    /\ pr \in PRSamples
    /\ packageDiff \in DiffSamples
    /\ commitErrors = <<>>
    /\ fails = <<>>
    /\ warns = <<>>
    /\ markdowns = <<>>
    /\ messages = EmptyBag
    /\ pc = "start"
    /\ cb = [k \in 1..6 |-> "unscheduled"]

\* Main stopping at the first failing commit list: after the fail calls
\* nothing else runs, no warning is given and no callback is scheduled.
MainStopsAfterFail ==
    /\ pc = "start"
    /\ commitErrors' = lintAll(commitsOf(commits))
    /\ fails' = failCalls(commitErrors')
    /\ IF fails' # <<>>
       THEN /\ warns' = <<>>
            /\ markdowns' = <<>>
            /\ cb' = [k \in 1..6 |-> "resolved"]
       ELSE /\ warns' = warnCalls
            /\ markdowns' = markdownCalls
            /\ cb' = [k \in 1..6 |-> "awaiting"]
    /\ pc' = "scheduled"
    /\ UNCHANGED <<commits, modified_files, pr, packageDiff, messages>>
    /\ UNCHANGED lintVars

\* The synchronous top level of the dangerfile, lines 58-99, and the six
\* schedule calls: each callback runs up to its await.
Main ==
    /\ pc = "start"
    /\ commitErrors' = lintAll(commitsOf(commits))
    /\ fails' = failCalls(commitErrors')
    /\ warns' = warnCalls
    /\ markdowns' = markdownCalls
    /\ cb' = [k \in 1..6 |-> "awaiting"]
    /\ pc' = "scheduled"
    /\ UNCHANGED <<commits, modified_files, pr, packageDiff, messages>>
    /\ UNCHANGED lintVars

\* Callback k resumes after await danger.git.JSONDiffForFile('package.json').
Resume(k) ==
    /\ cb[k] = "awaiting"
    /\ LET outcome == scheduled(k, packageDiff) IN
       /\ cb' = [cb EXCEPT ![k] = IF outcome.kind = "throw"
                                  THEN "rejected" ELSE "resolved"]
       /\ messages' = IF outcome.kind = "message"
                      THEN messages (+) SetToBag({[line |-> MessageLine[k],
                                                   text |-> outcome.text]})
                      ELSE messages
    /\ UNCHANGED <<commits, modified_files, pr, packageDiff,
                   commitErrors, fails, warns, markdowns, pc>>
    /\ UNCHANGED lintVars

Next == Main \/ \E k \in 1..6 : Resume(k)

Spec == Init /\ [][Next]_vars

\* The runs checked for what is eventually emitted: a valid and an invalid
\* commit, a commit without message.
FairCommitLists ==
    { <<GithubCommit("a1", Str(<<"c", "i", ":", " ", "b">>)),
        GithubCommit("b2", Str(<<"f", "i", "x", ":", " ", "x", "\n", "y">>))>>,
      <<GithubCommit("c3", Undefined)>> }

FairInit ==
    /\ LintIdle
    /\ commits \in FairCommitLists
    /\ modified_files \in SUBSET {"package.json", "yarn.lock"}
    /\ pr \in PRSamples
    /\ packageDiff \in DiffSamples
    /\ commitErrors = <<>>
    /\ fails = <<>>
    /\ warns = <<>>
    /\ markdowns = <<>>
    /\ messages = EmptyBag
    /\ pc = "start"
    /\ cb = [k \in 1..6 |-> "unscheduled"]

\* The event loop does not stop while the top level or a callback whose
\* awaited promise has settled is still to run.
FairSpec ==
    FairInit /\ [][Next]_vars /\ WF_vars(Next)

-----------------------------------------------------------------------------
(* The commit-message convention, stated on the lines of the message        *)

Alnum == Lower \cup Upper \cup Digits

NewlinesOf(s) == {i \in 1..Len(s) : s[i] = "\n"}
LineCount(s) == Cardinality(NewlinesOf(s)) + 1
NthNewline(s, k) ==
    CHOOSE i \in NewlinesOf(s) : Cardinality({j \in NewlinesOf(s) : j <= i}) = k
\* Line k of s, 1 <= k <= LineCount(s): what lies between two line feeds.
LineAt(s, k) ==
    LET from == IF k = 1 THEN 1 ELSE NthNewline(s, k - 1) + 1
        to == IF k = LineCount(s) THEN Len(s) ELSE NthNewline(s, k) - 1
    IN  SubSeq(s, from, to)

\* line is a type tag, then optionally "(", a scope of one or more characters
\* outside bad and ")", then ": " and a subject whose first character is
\* outside bad.
HeaderShape(line, bad) ==
    \E n \in 1..Len(Types) :
        LET tag == Types[n]
            open == Len(tag) + 1
            closers == {q \in (open + 2)..Len(line) :
                            /\ line[open] = "("
                            /\ line[q] = ")"
                            /\ \A i \in (open + 1)..(q - 1) : line[i] \notin bad}
        IN  /\ Len(line) >= Len(tag)
            /\ SubSeq(line, 1, Len(tag)) = tag
            /\ \E p \in {open} \cup {q + 1 : q \in closers} :
                   /\ Len(line) >= p + 2
                   /\ SubSeq(line, p, p + 1) = <<":", " ">>
                   /\ line[p + 2] \notin bad

HasAlnum(line) == \E i \in 1..Len(line) : line[i] \in Alnum

\* The five checks in their order; check k is about line k.
CheckPasses(s, k) ==
    CASE k = 1 -> HeaderShape(LineAt(s, 1), LineTerminators)
      [] k = 2 -> LineAt(s, 2) = <<>>
      [] k = 3 -> HasAlnum(LineAt(s, 3))
      [] k = 4 -> LineAt(s, 4) = <<>>
      [] k = 5 -> HasAlnum(LineAt(s, 5))

FailingChecks(s) == {k \in 1..5 : k <= LineCount(s) /\ ~CheckPasses(s, k)}

Least(S) == CHOOSE k \in S : \A j \in S : k <= j

ReasonTexts ==
    << " Line #1 should be '<type>(<scope>): <subject>' or '<type>: <subject>'.",
       " Line #2 should be '<blank line>'.",
       " Line #3 should be '<body>' (with text).",
       " Line #4 should be '<blank line>'.",
       " Line #3 should be '<footer>' with text." >>

\* The reason commitLint gives for check k of the commit sha.
Reason(sha, k) ==
    Str(<<"Commit ", sha,
          " message does not comply with the conventional-changelog-standard conventions.",
          ReasonTexts[k]>>)

NoMessageReason(sha) == Str(<<"Commit ", sha, " has no commit message">>)

Absent(msg) == msg \in {Undefined, Null, Str(<<>>)}

-----------------------------------------------------------------------------
(* Claims about commitLint, under LintSpec                                  *)

\* C1: for a commit with a non-empty message commitLint returns the reason
\* of the first check that fails, in the order header, blank line 2, body
\* text on line 3, blank line 4, footer text on line 5, a check applying only
\* when its line exists, and returns undefined exactly when none fails.
C1_FirstFailingCheck ==
    (called /\ ~Absent(commit.msg)) =>
        LET F == FailingChecks(commit.msg.s)
        IN  result = IF F = {} THEN Undefined ELSE Reason(commit.sha, Least(F))

\* Two checks fail, the first of them after the header, and only the first
\* is reported.
C1_Witness ==
    /\ called
    /\ ~Absent(commit.msg)
    /\ Cardinality(FailingChecks(commit.msg.s)) >= 2
    /\ Least(FailingChecks(commit.msg.s)) = 2
    /\ result = Reason(commit.sha, 2)

\* C2 as stated: a one-line message is valid exactly when it is a type tag,
\* an optional parenthesized scope of one or more characters, ": " and a
\* subject of one or more characters, whatever those characters are;
\* otherwise the line-1 reason is returned.
C2_AnyCharacter ==
    (called /\ ~Absent(commit.msg) /\ LineCount(commit.msg.s) = 1) =>
        result = IF HeaderShape(commit.msg.s, {})
                 THEN Undefined ELSE Reason(commit.sha, 1)

\* C2, amended: as above, where the characters of the scope and the first
\* character of the subject are not line terminators (CR, U+2028, U+2029).
C2_NoLineTerminator ==
    (called /\ ~Absent(commit.msg) /\ LineCount(commit.msg.s) = 1) =>
        result = IF HeaderShape(commit.msg.s, LineTerminators)
                 THEN Undefined ELSE Reason(commit.sha, 1)

\* A one-line message with a scope is accepted.
C2_Witness ==
    /\ called
    /\ ~Absent(commit.msg)
    /\ LineCount(commit.msg.s) = 1
    /\ \E i \in 1..Len(commit.msg.s) : commit.msg.s[i] = "("
    /\ result = Undefined

\* The premise of C3: three lines or more, the header and line 2 pass.
BodyChecked ==
    /\ called
    /\ ~Absent(commit.msg)
    /\ LineCount(commit.msg.s) > 2
    /\ HeaderShape(LineAt(commit.msg.s, 1), LineTerminators)
    /\ LineAt(commit.msg.s, 2) = <<>>

\* C3 as stated: the body check passes exactly when line 3 holds a letter,
\* a digit or an underscore.
C3_UnderscoreIsText ==
    BodyChecked =>
        (result # Reason(commit.sha, 3)
            <=> \E i \in 1..Len(LineAt(commit.msg.s, 3)) :
                    LineAt(commit.msg.s, 3)[i] \in Alnum \cup {"_"})

\* C3, amended: the body check passes exactly when line 3 holds an ASCII
\* letter or digit; a line of punctuation, whitespace and underscores only
\* yields the line-3 body reason.
C3_AlnumIsText ==
    BodyChecked =>
        (result # Reason(commit.sha, 3) <=> HasAlnum(LineAt(commit.msg.s, 3)))

\* A third line made of an underscore is refused.
C3_Witness ==
    /\ BodyChecked
    /\ LineAt(commit.msg.s, 3) = <<"_">>
    /\ result = Reason(commit.sha, 3)

\* C4: whatever the commit id, an empty or absent message yields the
\* no-commit-message reason and no reason of another check.
C4_NoCommitMessage ==
    (called /\ Absent(commit.msg)) => result = NoMessageReason(commit.sha)

C4_Witness ==
    /\ called
    /\ commit.msg = Str(<<>>)
    /\ commit.sha = "b2"
    /\ result = NoMessageReason("b2")

\* C10: a message whose first five lines pass the five checks is valid,
\* whatever the lines after the fifth.
C10_LinesAfterFifthIgnored ==
    (/\ called
     /\ ~Absent(commit.msg)
     /\ LineCount(commit.msg.s) >= 5
     /\ \A k \in 1..5 : CheckPasses(commit.msg.s, k))
        => result = Undefined

\* A sixth line that would pass neither a blank-line nor a text check.
C10_Witness ==
    /\ called
    /\ ~Absent(commit.msg)
    /\ LineCount(commit.msg.s) >= 6
    /\ \A k \in 1..5 : CheckPasses(commit.msg.s, k)
    /\ LineAt(commit.msg.s, 6) = <<"_", "-">>
    /\ result = Undefined

-----------------------------------------------------------------------------
(* Claims about a run of the dangerfile                                     *)

\* What the convention says of commit i of the pull request.
ExpectedResult(i) ==
    LET sha == commits[i].sha
        msg == commits[i].commit.message
    IN  IF Absent(msg) THEN NoMessageReason(sha)
        ELSE IF FailingChecks(msg.s) = {} THEN Undefined
        ELSE Reason(sha, Least(FailingChecks(msg.s)))

Invalid(i) == ExpectedResult(i) # Undefined

RECURSIVE ExpectedFailsFrom(_)
ExpectedFailsFrom(i) ==
    IF i > Len(commits) THEN <<>>
    ELSE (IF Invalid(i) THEN <<ExpectedResult(i)>> ELSE <<>>)
         \o ExpectedFailsFrom(i + 1)

\* C5: fail is called once for each invalid commit of the pull request, in
\* commit order, with the reason of that commit (which names its id), and
\* never for a valid commit; what is reported for a commit depends on that
\* commit alone.
C5_OneFailPerInvalidCommit ==
    pc = "scheduled" => fails = ExpectedFailsFrom(1)

\* A valid and an invalid commit in one pull request: one fail call.
C5_Witness ==
    /\ pc = "scheduled"
    /\ Len(commits) = 2
    /\ ~Invalid(1)
    /\ Invalid(2)
    /\ fails = <<ExpectedResult(2)>>

SectionName(k) == IF k <= 3 THEN "dependencies" ELSE "devDependencies"
FieldsRead(k) ==
    CASE k \in {1, 4} -> {"added"}
      [] k \in {2, 5} -> {"removed"}
      [] k \in {3, 6} -> {"before", "after"}

Missing(v) == v \in {Undefined, Null}

\* The diff holds no data for callback k: it is absent, or the section of k
\* is, or the section lacks a field k reads.
NoData(k) ==
    \/ Missing(packageDiff)
    \/ Missing(Get(packageDiff, SectionName(k)))
    \/ \E f \in FieldsRead(k) : Missing(Get(Get(packageDiff, SectionName(k)), f))

Settled(k) == cb[k] \in {"resolved", "rejected"}
MessagesOf(k) == {m \in BagToSet(messages) : m.line = MessageLine[k]}

\* C6: a dependency check whose data is missing or malformed ends without
\* its message and without an error.
C6_MissingDataIsNoData ==
    \A k \in 1..6 :
        (Settled(k) /\ NoData(k)) => (cb[k] = "resolved" /\ MessagesOf(k) = {})

\* C9: the lockfile warning is given exactly when one of package.json and
\* yarn.lock, and not the other, is among the modified files.
C9_WarnsEitherWay ==
    pc = "scheduled" =>
        ((\E i \in 1..Len(warns) : warns[i] = LockfileWarning)
            <=> (("package.json" \in modified_files) # ("yarn.lock" \in modified_files)))

\* The condition of each output, read off the inputs of the run.
ExpectedWarns ==
    (IF "package.json" \in modified_files /\ "yarn.lock" \notin modified_files
     THEN {LockfileWarning} ELSE {})
    \cup (IF pr.additions + pr.deletions > bigPRThreshold THEN {BigPRWarning} ELSE {})
    \cup (IF pr.assignee = Null THEN {AssigneeWarning} ELSE {})

IsArray(v) == v.t = "array"
IsObject(v) == v.t = "object"

\* Callback k has something to say: a non-empty added or removed list, or
\* a dependency whose version before is known and differs from the one
\* after.
HasNews(k) ==
    /\ ~NoData(k)
    /\ LET section == Get(packageDiff, SectionName(k)) IN
       CASE k \in {1, 4} ->
              IsArray(Get(section, "added")) /\ Get(section, "added").items # <<>>
         [] k \in {2, 5} ->
              IsArray(Get(section, "removed")) /\ Get(section, "removed").items # <<>>
         [] k \in {3, 6} ->
              LET before == Get(section, "before")
                  after == Get(section, "after")
              IN  /\ IsObject(before)
                  /\ IsObject(after)
                  /\ \E i \in 1..Len(after.keys) :
                         /\ Get(before, after.keys[i]) \notin {Undefined, Null, Str(<<>>)}
                         /\ Get(before, after.keys[i]) # after.vals[i]

Delivered ==
    /\ fails = ExpectedFailsFrom(1)
    /\ {warns[i] : i \in 1..Len(warns)} = ExpectedWarns
    /\ Len(warns) = Cardinality(ExpectedWarns)
    /\ markdowns = (IF pr.additions + pr.deletions > bigPRThreshold
                    THEN <<BigPRMarkdown>> ELSE <<>>)
    /\ \A k \in 1..6 : Cardinality(MessagesOf(k)) = (IF HasNews(k) THEN 1 ELSE 0)
    /\ BagCardinality(messages) = Cardinality({k \in 1..6 : HasNews(k)})

\* C8: whatever the order in which the six callbacks resume, every output
\* whose condition holds ends up emitted, once, and no other: a failure for
\* each invalid commit, the lockfile, big-PR and assignee warnings, and the
\* message of each dependency check.
C8_AllEventuallyEmitted == <>[]Delivered

\* Failures, a warning and two messages emitted in one run in which a
\* callback was rejected.
C8_Witness ==
    /\ \A k \in 1..6 : Settled(k)
    /\ \E k \in 1..6 : cb[k] = "rejected"
    /\ fails # <<>>
    /\ warns # <<>>
    /\ BagCardinality(messages) >= 2
    /\ Delivered

=============================================================================
